---- MODULE Spec2Model ----
(***************************************************************************)
(* Analytics instrumentation of the carousel / video ad page:              *)
(*   js/ga-lite.js      identity resolution and the track() sink adapter   *)
(*   js/ga-carousel.js  carousel dwell observer                            *)
(*   js/ga-video.js     media progress observer                            *)
(* Every handler of the three scripts is one action.  Date.now() is the    *)
(* variable now (milliseconds), advanced by Tick.                          *)
(***************************************************************************)
EXTENDS Integers, Sequences, FiniteSets, TLC

VARIABLES
    now,            \* Date.now()
    storage,        \* localStorage['prolific_id'] (survives page loads)
    urlId,          \* value of the PROLIFIC_ID query parameter of this load
    prompted,       \* prompt() was shown during this load
    loads,          \* number of page loads so far
    GALite,         \* window.GALite: phase of the script, isLoaded, userId
    log,            \* calls of GALite.track, in order, with what gtag received
    thrown,         \* an exception escaped from GALite.track to its caller
    carouselState,  \* ga-carousel.js carouselState
    lastSlideIndex, \* closure variable of the touchend listener
    dom,            \* the page: slide count, overlay, track, carousel, dots
    trackStyle,     \* translateX percentage of .reel-carousel-track (or NoStyle)
    timers,         \* pending setTimeout callbacks of ga-carousel.js, FIFO
    cpc,            \* position of the carousel observer's initialisation
    lifecycle,      \* page lifecycle: active, beforeunload (fired), hidden
    indexChanges,   \* slide-index changes of the page since tracking start
    startedAt,      \* Date.now() when carousel tracking started (null before)
    videoState,     \* ga-video.js videoState
    media,          \* the playback surface: kind, metadata, duration, position
    vpc,            \* position of the media observer's initialisation
    twin,           \* an embedded-player observer fed the native element's signals
    posted          \* messages posted to the embedded player's window, in order

vars == <<now, storage, urlId, prompted, loads, GALite, log, thrown,
          carouselState, lastSlideIndex, dom, trackStyle, timers, cpc,
          lifecycle, indexChanges, startedAt, videoState, media, vpc, twin,
          posted>>

sinkVars == <<storage, urlId, prompted, loads, GALite>>
carouselVars == <<carouselState, lastSlideIndex, dom, trackStyle, timers, cpc,
                  indexChanges, startedAt>>
videoVars == <<videoState, media, vpc, twin, posted>>

(***************************************************************************)
(* Bounds of the model                                                     *)
(***************************************************************************)
T0 == 1000          \* Date.now() at the start of the page load
MaxLog == 7         \* longest log of track calls explored
MaxScenarioLog == 9 \* longest log explored by the scenario specifications
MaxVideoLog == 5    \* longest log explored by the media specification
MaxTimers == 1      \* most pending setTimeout callbacks
MaxLoads == 2       \* page loads explored by the identity specification
MaxSinkLog == 2     \* longest log explored by the identity specification

(***************************************************************************)
(* JavaScript values                                                       *)
(***************************************************************************)
\* null for a timestamp (slideStartTime, startTime)
null == -1
\* null / undefined for a string (userId, query parameter, prompt answer)
NoId == "null"

\* JavaScript truthiness of a string-or-null
TruthyStr(s) == s # NoId /\ s # ""
\* JavaScript truthiness of a number-or-null
TruthyNum(n) == n # null /\ n # 0

\* String.prototype.trim on the answers the prompt can give
trim(s) ==
    CASE s = " P7 " -> "P7"
      [] s = "  "   -> ""
      [] OTHER      -> s

UrlValues == {NoId, "", "P42"}
PromptAnswers == {NoId, "  ", " P7 ", "P9"}

(***************************************************************************)
(* ga-lite.js                                                              *)
(***************************************************************************)
\* localStorage.setItem inside try/catch: a throwing store leaves it unchanged
setItem(store, value, throws) == IF throws THEN store ELSE value

\* getProlificId consulting localStorage before the query string
getProlificIdStoredFirst(url, store, answer, setThrows, getThrows) ==
    IF ~getThrows /\ TruthyStr(store)
    THEN [id |-> store, store |-> store, prompted |-> FALSE]
    ELSE IF TruthyStr(url)
    THEN [id |-> url, store |-> setItem(store, url, setThrows), prompted |-> FALSE]
    ELSE IF TruthyStr(answer) /\ TruthyStr(trim(answer))
    THEN [id |-> trim(answer), store |-> setItem(store, trim(answer), setThrows),
          prompted |-> TRUE]
    ELSE [id |-> NoId, store |-> store, prompted |-> TRUE]

\* getProlificId(): the identity, the store afterwards, whether prompt() ran.
\* answer is what prompt() would return; setThrows / getThrows say whether
\* localStorage.setItem / getItem throw during this call.
getProlificId(url, store, answer, setThrows, getThrows) ==
    IF TruthyStr(url)
    THEN [id |-> url, store |-> setItem(store, url, setThrows), prompted |-> FALSE]
    ELSE IF ~getThrows /\ TruthyStr(store)
    THEN [id |-> store, store |-> store, prompted |-> FALSE]
    ELSE IF TruthyStr(answer) /\ TruthyStr(trim(answer))
    THEN [id |-> trim(answer), store |-> setItem(store, trim(answer), setThrows),
          prompted |-> TRUE]
    ELSE [id |-> NoId, store |-> store, prompted |-> TRUE]

\* window.GALite before ga-lite.js ran
NoGALite == [phase |-> "absent", isLoaded |-> FALSE, userId |-> NoId]
\* window.GALite as the script creates it (lines 14-18)
NewGALite == [phase |-> "defined", isLoaded |-> FALSE, userId |-> NoId]

\* typeof window.gtag === 'function': gtag is assigned in script.onload only
gtagIsFunction(ga) == ga.phase = "loaded"

\* track without its try/catch: a throwing gtag reaches the caller
trackNoCatch(ga, eventName, parameters, gtagThrows) ==
    IF ~ga.isLoaded \/ ~(ga.phase = "loaded")
    THEN [event |-> eventName, params |-> parameters, forwarded |-> FALSE,
          user_id |-> NoId, escaped |-> FALSE]
    ELSE IF gtagThrows
    THEN [event |-> eventName, params |-> parameters, forwarded |-> FALSE,
          user_id |-> NoId, escaped |-> TRUE]
    ELSE [event |-> eventName, params |-> parameters, forwarded |-> TRUE,
          user_id |-> IF TruthyStr(ga.userId) THEN ga.userId ELSE NoId,
          escaped |-> FALSE]

\* track(eventName, parameters): the entry the call adds to the log.
\* forwarded says whether gtag('event', ...) received the event; gtagThrows
\* says whether the underlying gtag call throws.
track(ga, eventName, parameters, gtagThrows) ==
    IF ~ga.isLoaded \/ ~gtagIsFunction(ga)
    THEN [event |-> eventName, params |-> parameters, forwarded |-> FALSE,
          user_id |-> NoId, escaped |-> FALSE]
    ELSE IF gtagThrows
    THEN [event |-> eventName, params |-> parameters, forwarded |-> FALSE,
          user_id |-> NoId, escaped |-> FALSE]
    ELSE [event |-> eventName, params |-> parameters, forwarded |-> TRUE,
          user_id |-> IF TruthyStr(ga.userId) THEN ga.userId ELSE NoId,
          escaped |-> FALSE]

\* The log after the calls es (entries made by track) were made in order
Emit(es) == /\ log' = log \o es
            /\ thrown' = (thrown \/ \E i \in 1..Len(es) : es[i].escaped)

\* names of the events the page's scripts pass to track
EventNames == {"page_view", "carousel_start", "slide_view", "dwell_end",
               "carousel_complete", "video_start", "video_progress",
               "video_complete"}

\* ga-lite.js runs: window.GALite = {isLoaded: false, userId: null, ...}
GaLiteScript ==
    /\ GALite.phase = "absent"
    /\ GALite' = NewGALite
    /\ UNCHANGED <<storage, urlId, prompted, loads>>

\* initializeGA() up to document.head.appendChild(script): resolves the
\* identity and starts loading gtag.js
initializeGA ==
    /\ GALite.phase = "defined"
    /\ \E answer \in PromptAnswers, setThrows \in BOOLEAN, getThrows \in BOOLEAN :
         LET r == getProlificId(urlId, storage, answer, setThrows, getThrows) IN
           /\ GALite' = [GALite EXCEPT !.phase = "loading", !.userId = r.id]
           /\ storage' = r.store
           /\ prompted' = r.prompted
    /\ UNCHANGED <<urlId, loads>>

\* script.onload: gtag is defined and configured, isLoaded = true
GtagOnload ==
    /\ GALite.phase = "loading"
    /\ GALite' = [GALite EXCEPT !.phase = "loaded", !.isLoaded = TRUE]
    /\ UNCHANGED <<storage, urlId, prompted, loads>>

\* script.onerror: the promise is rejected, the rejection is swallowed
GtagOnerror ==
    /\ GALite.phase = "loading"
    /\ GALite' = [GALite EXCEPT !.phase = "failed"]
    /\ UNCHANGED <<storage, urlId, prompted, loads>>

SinkStep == GaLiteScript \/ initializeGA \/ GtagOnload \/ GtagOnerror

(***************************************************************************)
(* ga-carousel.js                                                          *)
(***************************************************************************)
\* Minimum dwell time to count as "viewed"
MIN_DWELL_MS == 2000

\* track.style.transform when the page has set none
NoStyle == 1

\* translateX percentages the page gives the track of a carousel of n slides
Transforms(n) == {0 - 100 * i : i \in 0..(n - 1)}

\* A JavaScript array is a map from the indexes it holds to their values;
\* its length is one more than its largest index.
ArrayLength(a) ==
    IF DOMAIN a = {} THEN 0
    ELSE 1 + (CHOOSE i \in DOMAIN a : \A j \in DOMAIN a : j <= i)

\* new Array(n).fill(false)
FilledFalse(n) == [i \in 0..(n - 1) |-> FALSE]

\* a[i] = true (a write past the end leaves holes)
SetTrue(a, i) == [j \in DOMAIN a \cup {i} |-> IF j = i THEN TRUE ELSE a[j]]

\* a.every(viewed => viewed): holes are skipped
every(a) == \A i \in DOMAIN a : a[i]

\* let carouselState = {...} (lines 13-21)
InitCarouselState ==
    [isStarted |-> FALSE, totalSlides |-> 0, currentSlide |-> 0,
     slideStartTime |-> null, slideViewedFlags |-> FilledFalse(0),
     totalDwellTime |-> 0, slideHistory |-> <<>>]

\* A handler's run: the carousel state so far and the track calls made so far
Run(st) == [st |-> st, out |-> <<>>]

\* trackCarouselStart()
trackCarouselStart(r, ga) ==
    IF ~r.st.isStarted
    THEN [st |-> [r.st EXCEPT !.isStarted = TRUE],
          out |-> Append(r.out, track(ga, "carousel_start",
                                     [total_slides |-> r.st.totalSlides], FALSE))]
    ELSE r

\* trackSlideView(slideIndex, direction)
trackSlideView(r, ga, slideIndex, direction) ==
    [st |-> [r.st EXCEPT !.currentSlide = slideIndex],
     out |-> Append(r.out, track(ga, "slide_view",
                                [slide_index |-> slideIndex,
                                 direction |-> direction], FALSE))]

\* trackDwellEnd with the threshold compared strictly (dwellMs > MIN_DWELL_MS)
trackDwellEndStrict(r, ga, slideIndex, dwellMs, t) ==
    [st |-> [r.st EXCEPT
               !.slideViewedFlags =
                   IF dwellMs > MIN_DWELL_MS THEN SetTrue(@, slideIndex) ELSE @,
               !.totalDwellTime = @ + dwellMs,
               !.slideHistory = Append(@, [slideIndex |-> slideIndex,
                                           dwellMs |-> dwellMs,
                                           timestamp |-> t])],
     out |-> Append(r.out, track(ga, "dwell_end",
                                [slide_index |-> slideIndex,
                                 dwell_ms |-> dwellMs], FALSE))]

\* trackDwellEnd(slideIndex, dwellMs); t is Date.now()
trackDwellEnd(r, ga, slideIndex, dwellMs, t) ==
    [st |-> [r.st EXCEPT
               !.slideViewedFlags =
                   IF dwellMs >= MIN_DWELL_MS THEN SetTrue(@, slideIndex) ELSE @,
               !.totalDwellTime = @ + dwellMs,
               !.slideHistory = Append(@, [slideIndex |-> slideIndex,
                                           dwellMs |-> dwellMs,
                                           timestamp |-> t])],
     out |-> Append(r.out, track(ga, "dwell_end",
                                [slide_index |-> slideIndex,
                                 dwell_ms |-> dwellMs], FALSE))]

\* startCarouselTracking()
startCarouselTracking(r, ga, t) ==
    LET a == trackCarouselStart(r, ga)
        b == trackSlideView(a, ga, 0, "start")
    IN  [b EXCEPT !.st.slideStartTime = t]

\* handleSlideChange(newSlideIndex, direction)
handleSlideChange(r, ga, newSlideIndex, direction, t) ==
    LET a == IF r.st.slideStartTime # null
             THEN trackDwellEnd(r, ga, r.st.currentSlide,
                                t - r.st.slideStartTime, t)
             ELSE r
        b == trackSlideView(a, ga, newSlideIndex, direction)
    IN  [b EXCEPT !.st.slideStartTime = t]

\* trackCarouselComplete()
trackCarouselComplete(r, ga, t) ==
    LET a == IF r.st.slideStartTime # null
             THEN [trackDwellEnd(r, ga, r.st.currentSlide,
                                 t - r.st.slideStartTime, t)
                     EXCEPT !.st.slideStartTime = null]
             ELSE r
    IN  [a EXCEPT !.out = Append(@, track(ga, "carousel_complete",
                      [total_dwell_ms |-> a.st.totalDwellTime,
                       all_viewed |-> every(a.st.slideViewedFlags)], FALSE))]

\* Math.round(Math.abs(translatePercent) / 100)
RoundHundredths(p) == ((IF p < 0 THEN -p ELSE p) + 50) \div 100

\* getCurrentSlideIndex(): 0 without a track or a transform
getCurrentSlideIndex(d, style) ==
    IF ~d.hasTrack THEN 0
    ELSE IF style = NoStyle THEN 0
    ELSE RoundHundredths(style)

\* detectSlideChange()
detectSlideChange(r, ga, d, style, t) ==
    LET currentSlideIndex == getCurrentSlideIndex(d, style) IN
      IF currentSlideIndex # r.st.currentSlide
      THEN handleSlideChange(r, ga, currentSlideIndex,
                             IF currentSlideIndex > r.st.currentSlide
                             THEN "next" ELSE "prev", t)
      ELSE r

\* handlePageUnload() of ga-carousel.js
\* handlePageUnload() reporting completion whether or not the carousel
\* was started
carouselHandlePageUnloadAlways(r, ga, t) ==
    LET a == IF r.st.slideStartTime # null
             THEN trackDwellEnd(r, ga, r.st.currentSlide,
                                t - r.st.slideStartTime, t)
             ELSE r
    IN  trackCarouselComplete(a, ga, t)

carouselHandlePageUnload(r, ga, t) ==
    LET a == IF r.st.slideStartTime # null
             THEN trackDwellEnd(r, ga, r.st.currentSlide,
                                t - r.st.slideStartTime, t)
             ELSE r
    IN  IF a.st.isStarted THEN trackCarouselComplete(a, ga, t) ELSE a

\* Pages explored: slide elements, tap-to-start overlay, track, carousel, dots
Doms ==
    { [slides |-> 2, overlay |-> "none",    hasTrack |-> TRUE, hasCarousel |-> TRUE, dots |-> 2],
      [slides |-> 2, overlay |-> "visible", hasTrack |-> TRUE, hasCarousel |-> TRUE, dots |-> 2],
      [slides |-> 0, overlay |-> "none",    hasTrack |-> TRUE, hasCarousel |-> TRUE, dots |-> 0] }

\* the handler's result becomes the state; its track calls join the log
Commit(r) == carouselState' = r.st /\ Emit(r.out)

\* room in the explored log for the n calls one more handler can make
LogRoom(cap, n) == Len(log) + n <= cap

\* the listeners of setupNavigationListeners are attached
Listening == cpc \in {"waiting", "tracking"}

\* the page still runs scripts
Alive == lifecycle # "hidden"

\* initCarouselTracking() while window.GALite is missing: retry in 100 ms
initCarouselTrackingPoll ==
    /\ Alive /\ cpc = "init" /\ GALite.phase = "absent"
    /\ UNCHANGED vars

\* initCarouselTracking() looking up the slides without waiting for
\* window.GALite
initCarouselTrackingNoWait ==
    /\ Alive /\ cpc = "init"
    /\ IF dom.slides = 0
       THEN /\ cpc' = "idle"
            /\ UNCHANGED <<carouselState, log, thrown>>
       ELSE LET st == [carouselState EXCEPT
                         !.totalSlides = dom.slides,
                         !.slideViewedFlags = FilledFalse(dom.slides)]
            IN  IF dom.overlay = "visible"
                THEN /\ cpc' = "waiting"
                     /\ carouselState' = st
                     /\ UNCHANGED <<log, thrown>>
                ELSE /\ cpc' = "tracking"
                     /\ Commit(startCarouselTracking(Run(st), GALite, now))
    /\ startedAt' = IF carouselState'.isStarted /\ ~carouselState.isStarted
                    THEN now ELSE startedAt
    /\ UNCHANGED <<now, lifecycle, lastSlideIndex, dom, trackStyle, timers,
                   indexChanges>>
    /\ UNCHANGED sinkVars /\ UNCHANGED videoVars

\* initCarouselTracking() with window.GALite present, through
\* setupNavigationListeners() and waitForTapToStart()
initCarouselTracking ==
    /\ Alive /\ cpc = "init" /\ GALite.phase # "absent"
    /\ IF dom.slides = 0
       THEN /\ cpc' = "idle"
            /\ UNCHANGED <<carouselState, log, thrown>>
       ELSE LET st == [carouselState EXCEPT
                         !.totalSlides = dom.slides,
                         !.slideViewedFlags = FilledFalse(dom.slides)]
            IN  IF dom.overlay = "visible"
                THEN /\ cpc' = "waiting"
                     /\ carouselState' = st
                     /\ UNCHANGED <<log, thrown>>
                ELSE /\ cpc' = "tracking"
                     /\ Commit(startCarouselTracking(Run(st), GALite, now))
    /\ startedAt' = IF carouselState'.isStarted /\ ~carouselState.isStarted
                    THEN now ELSE startedAt
    /\ UNCHANGED <<now, lifecycle, lastSlideIndex, dom, trackStyle, timers,
                   indexChanges>>
    /\ UNCHANGED sinkVars /\ UNCHANGED videoVars

\* click on the tap-to-start overlay ({ once: true })
TapToStart ==
    /\ Alive /\ cpc = "waiting"
    /\ cpc' = "tracking"
    /\ Commit(startCarouselTracking(Run(carouselState), GALite, now))
    /\ startedAt' = IF carouselState'.isStarted /\ ~carouselState.isStarted
                    THEN now ELSE startedAt
    /\ UNCHANGED <<now, lifecycle, lastSlideIndex, dom, trackStyle, timers,
                   indexChanges>>
    /\ UNCHANGED sinkVars /\ UNCHANGED videoVars

\* The page rewrites the style attribute of the track; the MutationObserver
\* callback (when attached) runs detectSlideChange()
StyleMutation(p) ==
    /\ Alive /\ cpc # "init"
    /\ trackStyle' = p
    /\ indexChanges' =
         IF carouselState.isStarted
            /\ getCurrentSlideIndex(dom, p) # getCurrentSlideIndex(dom, trackStyle)
         THEN indexChanges + 1 ELSE indexChanges
    /\ IF Listening /\ dom.hasTrack
       THEN Commit(detectSlideChange(Run(carouselState), GALite, dom, p, now))
       ELSE UNCHANGED <<carouselState, log, thrown>>
    /\ UNCHANGED <<now, lifecycle, lastSlideIndex, dom, timers, cpc, startedAt>>
    /\ UNCHANGED sinkVars /\ UNCHANGED videoVars

\* touchend on .reel-carousel: setTimeout(..., 50).  The clock is coarser
\* than the delay: the callback runs at any later point.
TouchEnd ==
    /\ Alive /\ Listening /\ dom.hasCarousel
    /\ timers' = Append(timers, [kind |-> "touchend", index |-> 0])
    /\ UNCHANGED <<now, lifecycle, log, thrown, carouselState, lastSlideIndex,
                   dom, trackStyle, cpc, indexChanges, startedAt>>
    /\ UNCHANGED sinkVars /\ UNCHANGED videoVars

\* click on the dot with this index: setTimeout(..., 50)
DotClick(index) ==
    /\ Alive /\ Listening /\ index < dom.dots
    /\ timers' = Append(timers, [kind |-> "dot", index |-> index])
    /\ UNCHANGED <<now, lifecycle, log, thrown, carouselState, lastSlideIndex,
                   dom, trackStyle, cpc, indexChanges, startedAt>>
    /\ UNCHANGED sinkVars /\ UNCHANGED videoVars

\* the oldest pending timer callback runs
TimerFire ==
    /\ Alive /\ timers # <<>>
    /\ timers' = Tail(timers)
    /\ IF Head(timers).kind = "touchend"
       THEN LET currentSlideIndex == getCurrentSlideIndex(dom, trackStyle) IN
              IF currentSlideIndex # lastSlideIndex
              THEN /\ Commit(handleSlideChange(Run(carouselState), GALite,
                                currentSlideIndex,
                                IF currentSlideIndex > lastSlideIndex
                                THEN "next" ELSE "prev", now))
                   /\ lastSlideIndex' = currentSlideIndex
              ELSE UNCHANGED <<carouselState, log, thrown, lastSlideIndex>>
       ELSE /\ Commit(handleSlideChange(Run(carouselState), GALite,
                                        Head(timers).index, "jump", now))
            /\ UNCHANGED lastSlideIndex
    /\ UNCHANGED <<now, lifecycle, dom, trackStyle, cpc, indexChanges, startedAt>>
    /\ UNCHANGED sinkVars /\ UNCHANGED videoVars

\* beforeunload reaches the carousel observer
CarouselBeforeUnload ==
    /\ lifecycle = "active"
    /\ lifecycle' = "beforeunload"
    /\ Commit(carouselHandlePageUnload(Run(carouselState), GALite, now))
    /\ UNCHANGED <<now, lastSlideIndex, dom, trackStyle, timers, cpc, indexChanges,
                   startedAt>>
    /\ UNCHANGED sinkVars /\ UNCHANGED videoVars

\* pagehide reaches the carousel observer
CarouselPageHide ==
    /\ Alive
    /\ lifecycle' = "hidden"
    /\ Commit(carouselHandlePageUnload(Run(carouselState), GALite, now))
    /\ UNCHANGED <<now, lastSlideIndex, dom, trackStyle, timers, cpc, indexChanges,
                   startedAt>>
    /\ UNCHANGED sinkVars /\ UNCHANGED videoVars

\* Milliseconds between the instants at which handlers are observed to run
Gaps == <<2000, 500, 2000>>
VideoGaps == <<1500, 3000>>

RECURSIVE SumTo(_, _)
SumTo(s, n) == IF n = 0 THEN 0 ELSE SumTo(s, n - 1) + s[n]

\* the values Date.now() takes when the gaps between them are gaps
Instants(gaps) == {T0 + SumTo(gaps, n) : n \in 0..Len(gaps)}

\* time passes to the next instant
Tick(gaps) ==
    /\ Alive /\ \E t \in Instants(gaps) : t > now
    /\ now' = CHOOSE t \in Instants(gaps) :
                 t > now /\ \A u \in Instants(gaps) : u > now => t <= u
    /\ UNCHANGED <<lifecycle, log, thrown>>
    /\ UNCHANGED sinkVars /\ UNCHANGED carouselVars /\ UNCHANGED videoVars

\* a step of the sink while an observer runs
SinkLoads ==
    /\ Alive /\ SinkStep
    /\ UNCHANGED <<now, lifecycle, log, thrown>>
    /\ UNCHANGED carouselVars /\ UNCHANGED videoVars

\* let videoState = {...} (ga-video.js lines 13-21)
InitVideoState ==
    [isStarted |-> FALSE, duration |-> 0, maxWatched |-> 0, progressTracked |-> {},
     startTime |-> null, totalWatchedMs |-> 0, videoType |-> NoId]

NoMedia == [kind |-> "none", readyState |-> 0, duration |-> 0, currentTime |-> 0]

\* the second observer before its script ran: its videoState, its track calls
NoTwin == [st |-> InitVideoState, out |-> <<>>]

\* window.GALite once gtag.js has loaded, the identity being id
LoadedGALite(id) == [phase |-> "loaded", isLoaded |-> TRUE, userId |-> id]

\* The carousel observer on a page whose sink has finished initialising
InitCarousel ==
    /\ now = T0 /\ storage = "P42" /\ prompted = FALSE /\ loads = 1
    /\ urlId = "P42" /\ GALite = LoadedGALite("P42")
    /\ log = <<>> /\ thrown = FALSE /\ lifecycle = "active"
    /\ carouselState = InitCarouselState /\ lastSlideIndex = 0
    /\ trackStyle = NoStyle /\ timers = <<>> /\ cpc = "init" /\ indexChanges = 0
    /\ startedAt = null
    /\ videoState = InitVideoState /\ vpc = "init" /\ media = NoMedia
    /\ twin = NoTwin /\ posted = <<>>
    /\ dom \in Doms

\* room among the pending timers explored
TimerRoom == Len(timers) < MaxTimers

NextCarousel ==
    \/ Tick(Gaps)
    \/ LogRoom(MaxLog, 2) /\ initCarouselTracking
    \/ LogRoom(MaxLog, 2) /\ TapToStart
    \/ LogRoom(MaxLog, 2) /\ \E p \in Transforms(dom.slides) : StyleMutation(p)
    \/ TimerRoom /\ TouchEnd
    \/ TimerRoom /\ \E i \in 0..(dom.dots - 1) : DotClick(i)
    \/ LogRoom(MaxLog, 2) /\ TimerFire
    \/ LogRoom(MaxLog, 3) /\ CarouselBeforeUnload
    \/ LogRoom(MaxLog, 3) /\ CarouselPageHide

SpecCarousel == InitCarousel /\ [][NextCarousel]_vars

(***************************************************************************)
(* ga-video.js                                                             *)
(***************************************************************************)
\* Editable array of milestone seconds
PROGRESS_SECONDS == <<5, 10, 15, 30, 45, 60, 75, 90>>

\* Playback positions (seconds) the surface reports
PlaybackPositions == {4, 6, 12}

\* Durations (seconds) of the media explored
Durations == {16, 100}

\* A handler's run of the media observer
VRun(st) == [st |-> st, out |-> <<>>]

\* trackVideoStart()
trackVideoStart(r, ga) ==
    [r EXCEPT !.out = Append(@, track(ga, "video_start",
                        [video_type |-> r.st.videoType,
                         duration_s |-> r.st.duration], FALSE))]

\* the body of PROGRESS_SECONDS.forEach for the first n milestones
RECURSIVE progressLoop(_, _, _, _)
progressLoop(r, ga, currentSeconds, n) ==
    IF n = 0 THEN r
    ELSE LET a == progressLoop(r, ga, currentSeconds, n - 1)
             second == PROGRESS_SECONDS[n]
         IN  IF currentSeconds >= second /\ second \notin a.st.progressTracked
             THEN [st |-> [a.st EXCEPT !.progressTracked = @ \cup {second}],
                   out |-> Append(a.out, track(ga, "video_progress",
                              [second |-> second,
                               duration_s |-> a.st.duration,
                               video_type |-> a.st.videoType], FALSE))]
             ELSE a

\* the forEach body without the progressTracked test
RECURSIVE progressLoopNoDedupe(_, _, _, _)
progressLoopNoDedupe(r, ga, currentSeconds, n) ==
    IF n = 0 THEN r
    ELSE LET a == progressLoopNoDedupe(r, ga, currentSeconds, n - 1)
             second == PROGRESS_SECONDS[n]
         IN  IF currentSeconds >= second
             THEN [st |-> [a.st EXCEPT !.progressTracked = @ \cup {second}],
                   out |-> Append(a.out, track(ga, "video_progress",
                              [second |-> second,
                               duration_s |-> a.st.duration,
                               video_type |-> a.st.videoType], FALSE))]
             ELSE a

\* trackVideoProgress re-emitting the milestones already reported
trackVideoProgressNoDedupe(r, ga, currentSeconds) ==
    IF r.st.duration = 0 THEN r
    ELSE progressLoopNoDedupe(r, ga, currentSeconds, Len(PROGRESS_SECONDS))

\* trackVideoProgress with the position rounded up to the next second
trackVideoProgressEarly(r, ga, currentSeconds) ==
    IF r.st.duration = 0 THEN r
    ELSE progressLoop(r, ga, currentSeconds + 1, Len(PROGRESS_SECONDS))

\* trackVideoProgress(currentSeconds)
trackVideoProgress(r, ga, currentSeconds) ==
    IF r.st.duration = 0 THEN r
    ELSE progressLoop(r, ga, currentSeconds, Len(PROGRESS_SECONDS))

\* Math.round(maxWatched / duration * 100), both whole seconds
RoundPercent(maxWatched, duration) == (200 * maxWatched + duration) \div (2 * duration)

\* percentWatched with Math.floor in place of Math.round
percentWatchedFloor(st) ==
    IF st.duration > 0 THEN (100 * st.maxWatched) \div st.duration ELSE 0

\* duration > 0 ? Math.round((maxWatched / duration) * 100) : 0
percentWatched(st) ==
    IF st.duration > 0 THEN RoundPercent(st.maxWatched, st.duration) ELSE 0

\* trackVideoComplete()
trackVideoComplete(r, ga, t) ==
    LET st == IF TruthyNum(r.st.startTime)
              THEN [r.st EXCEPT !.totalWatchedMs = @ + (t - r.st.startTime),
                                !.startTime = null]
              ELSE r.st
    IN  [st |-> st,
         out |-> Append(r.out, track(ga, "video_complete",
                    [watched_ms |-> st.totalWatchedMs,
                     percent_watched |-> percentWatched(st),
                     max_watched_s |-> st.maxWatched,
                     duration_s |-> st.duration,
                     video_type |-> st.videoType], FALSE))]

\* handlePageUnload() of ga-video.js
videoHandlePageUnload(r, ga, t) ==
    IF r.st.isStarted /\ TruthyNum(r.st.startTime)
    THEN LET st == [r.st EXCEPT !.totalWatchedMs = @ + (t - r.st.startTime)] IN
           [st |-> st,
            out |-> Append(r.out, track(ga, "video_complete",
                       [watched_ms |-> st.totalWatchedMs,
                        percent_watched |-> percentWatched(st),
                        max_watched_s |-> st.maxWatched,
                        duration_s |-> st.duration,
                        video_type |-> st.videoType,
                        completed_naturally |-> FALSE], FALSE))]
    ELSE r

\* the start branch of 'play' forgetting to set isStarted
playStartNoFlag(r, ga, t) ==
    [trackVideoStart(r, ga) EXCEPT !.st.startTime = t]

\* the first 'play' listener of the native element (lines 64-70) and the
\* 'play' case of handleVimeoEvent when the video has not started
playStart(r, ga, t) ==
    [trackVideoStart(r, ga) EXCEPT !.st.isStarted = TRUE, !.st.startTime = t]

\* the resume branch setting the timestamp whether or not one is set
playResumeAlways(r, t) == [r EXCEPT !.st.startTime = t]

\* the second 'play' listener (lines 98-102) and the resume branch of the
\* 'play' case of handleVimeoEvent
playResume(r, t) ==
    IF ~TruthyNum(r.st.startTime) THEN [r EXCEPT !.st.startTime = t] ELSE r

\* both 'play' listeners of the native element, in registration order
html5Play(r, ga, t) ==
    playResume(IF ~r.st.isStarted THEN playStart(r, ga, t) ELSE r, t)

\* the 'pause' listener and the 'pause' case of handleVimeoEvent
pause(r, t) ==
    IF TruthyNum(r.st.startTime)
    THEN [r EXCEPT !.st.totalWatchedMs = @ + (t - r.st.startTime),
                   !.st.startTime = null]
    ELSE r

\* progress without the anti-skip test: maxWatched follows the position
progressNoAntiSkip(r, ga, currentTime) ==
    trackVideoProgress([r EXCEPT !.st.maxWatched = currentTime], ga, currentTime)

\* the anti-skip update shared by both timeupdate handlers, followed by
\* trackVideoProgress(videoState.maxWatched)
progress(r, ga, currentTime) ==
    LET a == IF currentTime > r.st.maxWatched
             THEN [r EXCEPT !.st.maxWatched = currentTime] ELSE r
    IN  trackVideoProgress(a, ga, a.st.maxWatched)

\* handleVimeoEvent(data) for a parsed message
handleVimeoEvent(r, ga, data, t) ==
    CASE data.event = "play" ->
           IF ~r.st.isStarted THEN playStart(r, ga, t) ELSE playResume(r, t)
      [] data.event = "pause" -> pause(r, t)
      [] data.event = "timeupdate" ->
           IF data.hasData
           THEN progress(IF r.st.duration = 0 /\ data.duration # 0
                         THEN [r EXCEPT !.st.duration = data.duration] ELSE r,
                         ga, data.seconds)
           ELSE r
      [] data.event = "ended" -> trackVideoComplete(r, ga, t)
      [] OTHER -> r

\* the handler's result becomes videoState; its track calls join the log
VCommit(r) == videoState' = r.st /\ Emit(r.out)

\* Parsed messages the embedded player posts, its positions being ps (the
\* event NoId: an object without an event member)
VimeoMessages(ps) ==
    {[event |-> e, hasData |-> FALSE, seconds |-> 0, duration |-> 0] :
        e \in {NoId, "ready", "play", "pause", "ended", "timeupdate"}}
    \cup {[event |-> "timeupdate", hasData |-> TRUE, seconds |-> p, duration |-> d] :
            p \in ps, d \in Durations \cup {0}}

\* initVideoTracking() with window.GALite present: #adVideo first, then
\* #vimeoFrame; setupHTML5VideoTracking / setupVimeoTracking
initVideoTracking ==
    /\ Alive /\ vpc = "init" /\ GALite.phase # "absent"
    /\ CASE media.kind = "html5" ->
              /\ vpc' = IF media.readyState >= 1 THEN "html5" ELSE "html5meta"
              /\ videoState' = [videoState EXCEPT
                                  !.videoType = "html5",
                                  !.duration = IF media.readyState >= 1
                                               THEN media.duration ELSE @]
         [] media.kind = "vimeo" ->
              /\ vpc' = "vimeo"
              /\ videoState' = [videoState EXCEPT !.videoType = "vimeo"]
         [] OTHER ->
              /\ vpc' = "idle"
              /\ UNCHANGED videoState
    /\ UNCHANGED <<now, lifecycle, log, thrown, media, twin, posted>>
    /\ UNCHANGED sinkVars /\ UNCHANGED carouselVars

\* the native element loads its metadata; the 'loadedmetadata' listener
\* (attached when readyState was 0 at setup) copies the duration
LoadedMetadata ==
    /\ Alive /\ media.kind = "html5" /\ media.readyState = 0
    /\ media' = [media EXCEPT !.readyState = 1]
    /\ IF vpc = "html5meta"
       THEN videoState' = [videoState EXCEPT !.duration = media.duration]
       ELSE UNCHANGED videoState
    /\ UNCHANGED <<now, lifecycle, log, thrown, vpc, twin, posted>>
    /\ UNCHANGED sinkVars /\ UNCHANGED carouselVars

\* the native element has its listeners attached
Html5Listening == vpc \in {"html5", "html5meta"}

\* 'play' on the native element (fired when playback is requested, which
\* can be before the metadata has loaded)
Html5Play ==
    /\ Alive /\ Html5Listening
    /\ VCommit(html5Play(VRun(videoState), GALite, now))
    /\ UNCHANGED <<now, lifecycle, media, vpc, twin, posted>>
    /\ UNCHANGED sinkVars /\ UNCHANGED carouselVars

\* 'pause' on the native element
Html5Pause ==
    /\ Alive /\ Html5Listening
    /\ VCommit(pause(VRun(videoState), now))
    /\ UNCHANGED <<now, lifecycle, media, vpc, twin, posted>>
    /\ UNCHANGED sinkVars /\ UNCHANGED carouselVars

\* 'timeupdate' on the native element, video.currentTime being p
Html5TimeUpdate(p) ==
    /\ Alive /\ Html5Listening /\ media.readyState >= 1 /\ p <= media.duration
    /\ media' = [media EXCEPT !.currentTime = p]
    /\ VCommit(progress(VRun(videoState), GALite, p))
    /\ UNCHANGED <<now, lifecycle, vpc, twin, posted>>
    /\ UNCHANGED sinkVars /\ UNCHANGED carouselVars

\* 'ended' on the native element
Html5Ended ==
    /\ Alive /\ Html5Listening /\ media.readyState >= 1
    /\ VCommit(trackVideoComplete(VRun(videoState), GALite, now))
    /\ UNCHANGED <<now, lifecycle, media, vpc, twin, posted>>
    /\ UNCHANGED sinkVars /\ UNCHANGED carouselVars

\* the 'message' listener accepting messages of any origin
messageListenerAnyOrigin(r, ga, fromPlayer, isJson, data, t) ==
    IF ~isJson THEN r
    ELSE handleVimeoEvent(r, ga, data, t)

\* the 'message' listener (lines 118-127): the origin test, then JSON.parse
\* and handleVimeoEvent inside try/catch.  fromPlayer: the origin is
\* https://player.vimeo.com; isJson: event.data parses.
messageListener(r, ga, fromPlayer, isJson, data, t) ==
    IF ~fromPlayer THEN r
    ELSE IF ~isJson THEN r
    ELSE handleVimeoEvent(r, ga, data, t)

\* a 'message' event reaches the window
VimeoMessage(fromPlayer, isJson, data) ==
    /\ Alive /\ vpc = "vimeo"
    /\ VCommit(messageListener(VRun(videoState), GALite, fromPlayer, isJson,
                                data, now))
    /\ media' = IF fromPlayer /\ isJson /\ data.event = "timeupdate" /\ data.hasData
                THEN [media EXCEPT !.currentTime = data.seconds] ELSE media
    /\ UNCHANGED <<now, lifecycle, vpc, twin, posted>>
    /\ UNCHANGED sinkVars /\ UNCHANGED carouselVars

\* const commands = [...] of the iframe's 'load' listener
HandshakeCommands ==
    <<"addEventListener", "play", "pause", "ended", "timeupdate", "loaded">>

\* the messages commands.forEach posts: {method: command, value: command ===
\* 'addEventListener' ? 'play' : undefined}
HandshakeMessages ==
    [i \in 1..Len(HandshakeCommands) |->
        [method |-> HandshakeCommands[i],
         value |-> IF HandshakeCommands[i] = "addEventListener"
                   THEN "play" ELSE NoId]]

\* the player frame fires 'load' (once in the runs explored)
IframeLoad ==
    /\ Alive /\ vpc = "vimeo" /\ posted = <<>>
    /\ posted' = posted \o HandshakeMessages
    /\ UNCHANGED <<now, lifecycle, log, thrown, videoState, media, vpc, twin>>
    /\ UNCHANGED sinkVars /\ UNCHANGED carouselVars

\* beforeunload reaches the media observer
VideoBeforeUnload ==
    /\ lifecycle = "active"
    /\ lifecycle' = "beforeunload"
    /\ VCommit(videoHandlePageUnload(VRun(videoState), GALite, now))
    /\ UNCHANGED <<now, media, vpc, twin, posted>>
    /\ UNCHANGED sinkVars /\ UNCHANGED carouselVars

\* pagehide reaches the media observer
VideoPageHide ==
    /\ Alive
    /\ lifecycle' = "hidden"
    /\ VCommit(videoHandlePageUnload(VRun(videoState), GALite, now))
    /\ UNCHANGED <<now, media, vpc, twin, posted>>
    /\ UNCHANGED sinkVars /\ UNCHANGED carouselVars

\* Playback surfaces explored
Medias ==
    {[kind |-> "html5", readyState |-> rs, duration |-> d, currentTime |-> 0] :
        rs \in {0}, d \in Durations}
    \cup {[kind |-> "vimeo", readyState |-> 0, duration |-> d, currentTime |-> 0] :
            d \in Durations}

\* The media observer on a page whose sink has finished initialising
InitVideo ==
    /\ now = T0 /\ storage = "P42" /\ prompted = FALSE /\ loads = 1
    /\ urlId = "P42" /\ GALite = LoadedGALite("P42")
    /\ log = <<>> /\ thrown = FALSE /\ lifecycle = "active"
    /\ carouselState = InitCarouselState /\ lastSlideIndex = 0
    /\ trackStyle = NoStyle /\ timers = <<>> /\ cpc = "init" /\ indexChanges = 0
    /\ startedAt = null
    /\ dom = [slides |-> 0, overlay |-> "none", hasTrack |-> FALSE,
              hasCarousel |-> FALSE, dots |-> 0]
    /\ videoState = InitVideoState /\ vpc = "init" /\ twin = NoTwin /\ posted = <<>>
    /\ media \in Medias

NextVideo ==
    \/ Tick(VideoGaps)
    \/ initVideoTracking
    \/ LoadedMetadata
    \/ LogRoom(MaxVideoLog, 1) /\ Html5Play
    \/ Html5Pause
    \/ LogRoom(MaxVideoLog, 3) /\ \E p \in PlaybackPositions : Html5TimeUpdate(p)
    \/ LogRoom(MaxVideoLog, 1) /\ Html5Ended
    \/ LogRoom(MaxVideoLog, 3) /\ \E f \in BOOLEAN, j \in BOOLEAN, m \in VimeoMessages(PlaybackPositions) :
          m.duration \in {0, media.duration} /\ VimeoMessage(f, j, m)
    \/ LogRoom(MaxVideoLog, 1) /\ VideoBeforeUnload
    \/ LogRoom(MaxVideoLog, 1) /\ VideoPageHide
    \/ IframeLoad

SpecVideo == InitVideo /\ [][NextVideo]_vars

(***************************************************************************)
(* The playback scenario of the specification: duration 100 s, progress    *)
(* reports 0, 4, 6, 9, 12 in that order, on either transport               *)
(***************************************************************************)
ScenarioReports == <<0, 4, 6, 9, 12>>

ScenarioPositions == {ScenarioReports[i] : i \in 1..Len(ScenarioReports)}

\* p is the report that follows the reports made so far
NextReport(p) ==
    \/ p = 0 /\ media.currentTime = 0
    \/ \E i \in 1..(Len(ScenarioReports) - 1) :
          ScenarioReports[i] = media.currentTime /\ ScenarioReports[i + 1] = p

InitVideoScenario ==
    /\ now = T0 /\ storage = "P42" /\ prompted = FALSE /\ loads = 1
    /\ urlId = "P42" /\ GALite = LoadedGALite("P42")
    /\ log = <<>> /\ thrown = FALSE /\ lifecycle = "active"
    /\ carouselState = InitCarouselState /\ lastSlideIndex = 0
    /\ trackStyle = NoStyle /\ timers = <<>> /\ cpc = "init" /\ indexChanges = 0
    /\ startedAt = null
    /\ dom = [slides |-> 0, overlay |-> "none", hasTrack |-> FALSE,
              hasCarousel |-> FALSE, dots |-> 0]
    /\ videoState = InitVideoState /\ vpc = "init" /\ twin = NoTwin /\ posted = <<>>
    /\ media \in {[kind |-> k, readyState |-> 0, duration |-> 100, currentTime |-> 0] :
                    k \in {"html5", "vimeo"}}

NextVideoScenario ==
    \/ Tick(VideoGaps)
    \/ initVideoTracking
    \/ LoadedMetadata
    \/ LogRoom(MaxVideoLog, 1) /\ Html5Play
    \/ Html5Pause
    \/ LogRoom(MaxVideoLog, 1) /\ \E p \in ScenarioPositions :
          NextReport(p) /\ Html5TimeUpdate(p)
    \/ LogRoom(MaxVideoLog, 1) /\ Html5Ended
    \/ LogRoom(MaxVideoLog, 1) /\ \E m \in VimeoMessages(ScenarioPositions) :
          /\ m.hasData => m.duration = media.duration /\ NextReport(m.seconds)
          /\ VimeoMessage(TRUE, TRUE, m)
    \/ LogRoom(MaxVideoLog, 1) /\ VideoBeforeUnload
    \/ LogRoom(MaxVideoLog, 1) /\ VideoPageHide

SpecVideoScenario == InitVideoScenario /\ [][NextVideoScenario]_vars

(***************************************************************************)
(* The carousel scenario of the specification: 3 slides, swipes seen by    *)
(* the style observer, dwell 2500 / 500 / 3000 ms                          *)
(***************************************************************************)
ScenarioGaps == <<2500, 500, 3000>>

ScenarioDoms ==
    { [slides |-> 3, overlay |-> "none",    hasTrack |-> TRUE, hasCarousel |-> TRUE, dots |-> 3],
      [slides |-> 3, overlay |-> "visible", hasTrack |-> TRUE, hasCarousel |-> TRUE, dots |-> 3] }

InitScenario ==
    /\ now = T0 /\ storage = "P42" /\ prompted = FALSE /\ loads = 1
    /\ urlId = "P42" /\ GALite = LoadedGALite("P42")
    /\ log = <<>> /\ thrown = FALSE /\ lifecycle = "active"
    /\ carouselState = InitCarouselState /\ lastSlideIndex = 0
    /\ trackStyle = NoStyle /\ timers = <<>> /\ cpc = "init" /\ indexChanges = 0
    /\ startedAt = null
    /\ videoState = InitVideoState /\ vpc = "init" /\ media = NoMedia
    /\ twin = NoTwin /\ posted = <<>>
    /\ dom \in ScenarioDoms

NextScenario ==
    \/ Tick(ScenarioGaps)
    \/ LogRoom(MaxScenarioLog, 2) /\ initCarouselTracking
    \/ LogRoom(MaxScenarioLog, 2) /\ TapToStart
    \/ LogRoom(MaxScenarioLog, 2) /\ \E p \in Transforms(dom.slides) : StyleMutation(p)
    \/ LogRoom(MaxScenarioLog, 3) /\ CarouselBeforeUnload
    \/ LogRoom(MaxScenarioLog, 3) /\ CarouselPageHide

SpecScenario == InitScenario /\ [][NextScenario]_vars

(***************************************************************************)
(* The sink adapter over several page loads                                *)
(***************************************************************************)
\* a script of the page calls GALite.track(name, ...); gtagThrows: the
\* underlying gtag call throws
TrackCall(name, gtagThrows) ==
    /\ GALite.phase # "absent"
    /\ Emit(<<track(GALite, name, [caller |-> "page"], gtagThrows)>>)
    /\ UNCHANGED <<now, lifecycle>>
    /\ UNCHANGED sinkVars /\ UNCHANGED carouselVars /\ UNCHANGED videoVars

\* the browser loads the page again, with this PROLIFIC_ID query parameter:
\* everything but localStorage starts afresh
Navigate(url) ==
    /\ loads' = loads + 1
    /\ urlId' = url
    /\ GALite' = NoGALite /\ prompted' = FALSE
    /\ log' = <<>> /\ thrown' = FALSE
    /\ UNCHANGED <<now, lifecycle, storage>>
    /\ UNCHANGED carouselVars /\ UNCHANGED videoVars

\* a step of the sink
SinkOnly ==
    /\ SinkStep
    /\ UNCHANGED <<now, lifecycle, log, thrown>>
    /\ UNCHANGED carouselVars /\ UNCHANGED videoVars

\* a browser with an empty localStorage opens the page
InitSink ==
    /\ now = T0 /\ storage = NoId /\ prompted = FALSE /\ loads = 1
    /\ urlId \in UrlValues /\ GALite = NoGALite
    /\ log = <<>> /\ thrown = FALSE /\ lifecycle = "active"
    /\ carouselState = InitCarouselState /\ lastSlideIndex = 0
    /\ trackStyle = NoStyle /\ timers = <<>> /\ cpc = "init" /\ indexChanges = 0
    /\ startedAt = null
    /\ dom = [slides |-> 0, overlay |-> "none", hasTrack |-> FALSE,
              hasCarousel |-> FALSE, dots |-> 0]
    /\ videoState = InitVideoState /\ vpc = "init" /\ media = NoMedia
    /\ twin = NoTwin /\ posted = <<>>

NextSink ==
    \/ SinkOnly
    \/ Len(log) < MaxSinkLog /\ \E name \in EventNames, gt \in BOOLEAN : TrackCall(name, gt)
    \/ loads < MaxLoads /\ \E url \in UrlValues : Navigate(url)

SpecSink == InitSink /\ [][NextSink]_vars

(***************************************************************************)
(* Reading the log                                                         *)
(***************************************************************************)
\* positions of the log holding the event name
Positions(name) == {i \in 1..Len(log) : log[i].event = name}

\* the event and payload passed to track at position i
Call(i) == [event |-> log[i].event, params |-> log[i].params]

\* position of the first event name in the log (0 when there is none)
First(name) ==
    IF Positions(name) = {} THEN 0
    ELSE CHOOSE i \in Positions(name) : \A j \in Positions(name) : i <= j

\* position of the last slide_view before position i (0 when there is none)
PrevView(i) ==
    LET before == {j \in Positions("slide_view") : j < i} IN
      IF before = {} THEN 0
      ELSE CHOOSE j \in before : \A k \in before : k <= j

(***************************************************************************)
(* C1: after tracking start, the number of slide_view events equals the    *)
(* number of slide-index changes of the page plus one, and every           *)
(* slide_view but the first is immediately preceded by exactly one         *)
(* dwell_end, for the slide occupied before the change.                    *)
(***************************************************************************)
C1_SlideViewPerIndexChange ==
    (Len(log) > 0 /\ log[1].event = "carousel_start") =>
        /\ Cardinality(Positions("slide_view")) = indexChanges + 1
        /\ \A i \in Positions("slide_view") :
              i # First("slide_view") =>
                 /\ log[i - 1].event = "dwell_end"
                 /\ log[i - 2].event # "dwell_end"
                 /\ log[i - 1].params.slide_index
                      = log[PrevView(i)].params.slide_index
                 /\ log[i].params.slide_index
                      # log[PrevView(i)].params.slide_index

(***************************************************************************)
(* C2: 3 slides, dwell 2500 ms on slide 0, swipe to slide 1 (500 ms),      *)
(* swipe to slide 2 (3000 ms), unload: viewedFlags = [true, false, true],  *)
(* carousel_complete carries all_viewed = false and total_dwell_ms = 6000. *)
(***************************************************************************)
ScenarioCalls ==
    << [event |-> "carousel_start", params |-> [total_slides |-> 3]],
       [event |-> "slide_view", params |-> [slide_index |-> 0, direction |-> "start"]],
       [event |-> "dwell_end",  params |-> [slide_index |-> 0, dwell_ms |-> 2500]],
       [event |-> "slide_view", params |-> [slide_index |-> 1, direction |-> "next"]],
       [event |-> "dwell_end",  params |-> [slide_index |-> 1, dwell_ms |-> 500]],
       [event |-> "slide_view", params |-> [slide_index |-> 2, direction |-> "next"]] >>

\* the scenario's user has unloaded the page 3000 ms after reaching slide 2
ScenarioUnloaded ==
    /\ lifecycle # "active"
    /\ now = T0 + 6000
    /\ Len(log) > Len(ScenarioCalls)
    /\ \A i \in 1..Len(ScenarioCalls) : Call(i) = ScenarioCalls[i]
    /\ Positions("slide_view") = {2, 4, 6}

C2_ScenarioTotals ==
    ScenarioUnloaded =>
        /\ carouselState.slideViewedFlags = [i \in 0..2 |-> i # 1]
        /\ First("carousel_complete") # 0
        /\ log[First("carousel_complete")].params
             = [total_dwell_ms |-> 6000, all_viewed |-> FALSE]

(***************************************************************************)
(* C6: all_viewed of every carousel_complete is true iff every entry of    *)
(* the viewed flags is true, iff every slide index below the slide count   *)
(* had a single measured dwell (one dwell_end) of at least the minimum.    *)
(***************************************************************************)
\* a dwell_end before position k reports a qualifying dwell on slide i
QualifyingDwell(i, k) ==
    \E j \in 1..(k - 1) :
        /\ log[j].event = "dwell_end"
        /\ log[j].params.slide_index = i
        /\ log[j].params.dwell_ms >= MIN_DWELL_MS

C3_MaxWatchedNeverDecreases ==
    [][videoState'.maxWatched >= videoState.maxWatched]_vars

\* a report below the maximum has been handled
C3_Witness ==
    /\ media.currentTime = 4
    /\ videoState.maxWatched = 12

(***************************************************************************)
(* C4: video_progress for a milestone is emitted at most once, and only    *)
(* when maxWatched has reached the milestone.                              *)
(***************************************************************************)
\* positions of the log holding video_progress for milestone m
ProgressAt(m) == {i \in Positions("video_progress") : log[i].params.second = m}

Milestones == {PROGRESS_SECONDS[i] : i \in 1..Len(PROGRESS_SECONDS)}

C4_MilestoneAtMostOnce ==
    /\ \A i \in Positions("video_progress") : log[i].params.second \in Milestones
    /\ \A m \in Milestones :
          /\ Cardinality(ProgressAt(m)) <= 1
          /\ ProgressAt(m) # {} => videoState.maxWatched >= m

\* milestones 5 and 10 were emitted and a later report fell below both
C4_Witness ==
    /\ ProgressAt(5) # {} /\ ProgressAt(10) # {}
    /\ media.currentTime = 4
    /\ log[Len(log)].event = "video_complete"

(***************************************************************************)
(* C5: duration 100 s, reports 0, 4, 6, 9, 12: video_progress 5 is emitted *)
(* on handling the report 6 and not earlier, video_progress 10 on handling *)
(* the report 12 and not earlier, video_progress 15 never.                 *)
(***************************************************************************)
C5_ScenarioMilestones ==
    /\ ProgressAt(5) # {} <=> media.currentTime >= 6
    /\ ProgressAt(10) # {} <=> media.currentTime >= 12
    /\ \A i \in Positions("video_progress") : log[i].params.second \in {5, 10}
    /\ \A i \in Positions("video_progress") : log[i].params.duration_s = 100

\* all five reports were handled
C5_Witness ==
    /\ media.currentTime = 12
    /\ ProgressAt(5) # {} /\ ProgressAt(10) # {}

(***************************************************************************)
(* C7: every video_complete carries percent_watched = round(maxWatched /   *)
(* duration * 100) of the state at that moment, and 0 when the duration is *)
(* 0 or unknown.                                                           *)
(***************************************************************************)
\* p is x rounded to the nearest integer, halves up, where x = num / den
IsRounded(p, num, den) ==
    /\ 2 * (num - p * den) < den
    /\ 2 * (num - p * den) >= 0 - den

\* the step appends video_complete events to the log
CompletesAppended ==
    {k \in (Len(log) + 1)..Len(log') : log'[k].event = "video_complete"}

C7_PercentWatchedRounded ==
    [][\A k \in CompletesAppended :
          LET e == log'[k].params IN
            /\ e.max_watched_s = videoState'.maxWatched
            /\ e.duration_s = videoState'.duration
            /\ IF e.duration_s > 0
               THEN IsRounded(e.percent_watched, 100 * e.max_watched_s, e.duration_s)
               ELSE e.percent_watched = 0]_vars

\* 6 of 16 seconds is 37.5 percent, reported as 38, on unload
C7_Witness ==
    \E k \in Positions("video_complete") :
        /\ log[k].params.percent_watched = 38
        /\ "completed_naturally" \in DOMAIN log[k].params

(***************************************************************************)
(* C8: with the identifier in the URL query parameter no prompt is shown   *)
(* and every event forwarded to gtag carries that identifier.              *)
(***************************************************************************)
C8_UrlIdentityOnEveryEvent ==
    TruthyStr(urlId) =>
        /\ ~prompted
        /\ \A i \in 1..Len(log) : log[i].forwarded => log[i].user_id = urlId

\* an event was forwarded under the URL's identifier while localStorage
\* still held the identifier of an earlier load
C8_Witness ==
    /\ urlId = "P42" /\ TruthyStr(storage) /\ storage # "P42"
    /\ \E i \in 1..Len(log) : log[i].forwarded

(***************************************************************************)
(* C9: the identity is not carried from one page load to a later one: a    *)
(* load whose URL has no identifier always prompts the user.               *)
(***************************************************************************)
\* getProlificId() has run in this page load
IdentityResolved == GALite.phase \in {"loading", "loaded", "failed"}

C9_NoIdentityAcrossLoads ==
    (IdentityResolved /\ ~TruthyStr(urlId)) => prompted

(***************************************************************************)
(* C10: track never throws to its caller; before the sink is initialised   *)
(* (also when gtag.js failed to load) it forwards nothing and changes no   *)
(* state; a throwing gtag call is swallowed.                               *)
(***************************************************************************)
C10_TrackNeverThrows ==
    [][log' # log /\ loads' = loads =>
          /\ ~thrown'
          /\ UNCHANGED <<storage, urlId, prompted, GALite>>
          /\ ~(GALite.isLoaded /\ GALite.phase = "loaded") =>
                \A k \in (Len(log) + 1)..Len(log') : ~log'[k].forwarded]_vars

\* an event was forwarded and a later one was dropped by a throwing gtag
C10_Witness ==
    \E i, j \in 1..Len(log) : i < j /\ log[i].forwarded /\ ~log[j].forwarded

(***************************************************************************)
(* Reading a step                                                          *)
(***************************************************************************)
\* positions of the events the step appends to the log
Appended == (Len(log) + 1)..Len(log')

\* positions of the events named name the step appends to the log
AppendedNamed(name) == {k \in Appended : log'[k].event = name}

(***************************************************************************)
(* C11: with a visible start gate on the page the carousel observer emits  *)
(* no event and records no slide entry timestamp before the ready gesture, *)
(* whatever slide-index changes, dot clicks or unload signals occur before *)
(* it; without a gate tracking starts at initialisation.                   *)
(***************************************************************************)
C11_NoTrackingBeforeGate ==
    /\ (dom.overlay = "visible" /\ cpc \in {"init", "waiting"}) =>
          /\ log = <<>>
          /\ carouselState.slideStartTime = null
    /\ (dom.overlay = "none" /\ dom.slides > 0 /\ cpc # "init") =>
          /\ carouselState.isStarted
          /\ Len(log) >= 2
          /\ log[1].event = "carousel_start"

(***************************************************************************)
(* C12: on tracking start the observer emits carousel_start with the slide *)
(* count, then slide_view with slide_index 0 and direction start, and      *)
(* records the entry timestamp of slide 0; carousel_start is emitted       *)
(* exactly once per page load and is the first carousel event emitted.     *)
(***************************************************************************)
C12_StartSequence ==
    [][/\ (~carouselState.isStarted /\ carouselState'.isStarted) =>
            /\ log = <<>>
            /\ log' = <<track(GALite, "carousel_start",
                              [total_slides |-> dom.slides], FALSE),
                        track(GALite, "slide_view",
                              [slide_index |-> 0, direction |-> "start"], FALSE)>>
            /\ carouselState'.slideStartTime = now
            /\ carouselState'.currentSlide = 0
       /\ AppendedNamed("carousel_start") # {} =>
            (~carouselState.isStarted /\ carouselState'.isStarted)
       /\ carouselState.isStarted => carouselState'.isStarted]_vars

(***************************************************************************)
(* C13: video_start is emitted exactly once per page load, on the first    *)
(* play signal, for every sequence of play, pause, resume, ended and       *)
(* replay signals on either transport; later play signals never emit it.   *)
(***************************************************************************)
C13_VideoStartOnce ==
    [][/\ (~videoState.isStarted /\ videoState'.startTime # videoState.startTime) =>
            /\ Cardinality(AppendedNamed("video_start")) = 1
            /\ Positions("video_start") = {}
            /\ videoState'.isStarted
       /\ videoState.isStarted =>
            /\ AppendedNamed("video_start") = {}
            /\ videoState'.isStarted
            /\ Cardinality(Positions("video_start")) = 1
       /\ AppendedNamed("video_start") # {} => ~videoState.isStarted]_vars

\* the video was started, ended naturally and was played again
C13_Witness ==
    /\ Cardinality(Positions("video_start")) = 1
    /\ Len(log) > 1
    /\ log[Len(log)].event = "video_complete"
    /\ "completed_naturally" \notin DOMAIN log[Len(log)].params
    /\ videoState.startTime # null

(***************************************************************************)
(* The carousel observer under any transform offset: while a slide is      *)
(* dragged the page writes intermediate and overscrolled offsets to the    *)
(* track                                                                   *)
(***************************************************************************)
MaxOffsetLog == 5   \* longest log explored by the offsets specification

\* translateX percentages written to the track of a carousel of two slides:
\* at rest (0, -100), mid-drag (-40), overscrolled at either end (60, -160)
Offsets == {60, 0, -40, -100, -160}

NextOffsets ==
    \/ Tick(Gaps)
    \/ LogRoom(MaxOffsetLog, 2) /\ initCarouselTracking
    \/ LogRoom(MaxOffsetLog, 2) /\ TapToStart
    \/ LogRoom(MaxOffsetLog, 2) /\ \E p \in Offsets : StyleMutation(p)
    \/ TimerRoom /\ TouchEnd
    \/ TimerRoom /\ \E i \in 0..(dom.dots - 1) : DotClick(i)
    \/ LogRoom(MaxOffsetLog, 2) /\ TimerFire
    \/ LogRoom(MaxOffsetLog, 3) /\ CarouselBeforeUnload
    \/ LogRoom(MaxOffsetLog, 3) /\ CarouselPageHide

SpecOffsets == InitCarousel /\ [][NextOffsets]_vars

(***************************************************************************)
(* C14: in every reachable state of the carousel observer currentSlide is  *)
(* an integer in [0, slideCount) and the viewed flags have length exactly  *)
(* slideCount, whatever transform offsets the track reports and whichever  *)
(* dots are clicked.                                                       *)
(***************************************************************************)
C14_IndexAndFlagsInRange ==
    cpc \in {"waiting", "tracking"} =>
        /\ carouselState.currentSlide \in 0..(carouselState.totalSlides - 1)
        /\ ArrayLength(carouselState.slideViewedFlags) = carouselState.totalSlides

(***************************************************************************)
(* C15: on page unload while the video is playing and not yet completed    *)
(* the open watched interval is added to the accumulated watched time      *)
(* exactly once, the resume timestamp is cleared, and one video_complete   *)
(* is emitted with completed_naturally = false and otherwise the payload   *)
(* of a natural end.                                                       *)
(***************************************************************************)
\* the payload of video_complete on a natural end in state st
CompletePayload(st) ==
    [watched_ms |-> st.totalWatchedMs,
     percent_watched |-> percentWatched(st),
     max_watched_s |-> st.maxWatched,
     duration_s |-> st.duration,
     video_type |-> st.videoType]

C15_UnloadFlushesOnce ==
    [][(lifecycle' # lifecycle /\ videoState.isStarted
          /\ videoState.startTime # null) =>
            /\ videoState'.totalWatchedMs
                 = videoState.totalWatchedMs + (now - videoState.startTime)
            /\ videoState'.startTime = null
            /\ Len(log') = Len(log) + 1
            /\ log'[Len(log')].event = "video_complete"
            /\ log'[Len(log')].params
                 = [k \in DOMAIN CompletePayload(videoState') \cup {"completed_naturally"} |->
                      IF k = "completed_naturally" THEN FALSE
                      ELSE CompletePayload(videoState')[k]]]_vars

(***************************************************************************)
(* C16: on carousel completion with tracking started the current slide's   *)
(* dwell is flushed exactly once (one dwell_end for the current slide) and *)
(* then carousel_complete is emitted; when both beforeunload and pagehide  *)
(* fire in one page load only the first flushes and emits, so              *)
(* carousel_complete is emitted exactly once.                              *)
(***************************************************************************)
C16_CompleteOnce ==
    [][(lifecycle' # lifecycle /\ carouselState.isStarted) =>
          IF Positions("carousel_complete") = {}
          THEN /\ Len(log') = Len(log) + 2
               /\ log'[Len(log) + 1].event = "dwell_end"
               /\ log'[Len(log) + 1].params =
                    [slide_index |-> carouselState.currentSlide,
                     dwell_ms |-> now - carouselState.slideStartTime]
               /\ log'[Len(log')].event = "carousel_complete"
               /\ carouselState'.totalDwellTime
                    = carouselState.totalDwellTime
                        + (now - carouselState.slideStartTime)
          ELSE log' = log /\ carouselState' = carouselState]_vars

(***************************************************************************)
(* Both transports under the same signals: the observer of a page with     *)
(* #adVideo (videoState, log) and the observer of a page with #vimeoFrame  *)
(* (twin) receive the same play, pause, progress, end and unload signals   *)
(* at the same instants                                                    *)
(***************************************************************************)
\* a message of the embedded player without a data member
VimeoEvent(e) == [event |-> e, hasData |-> FALSE, seconds |-> 0, duration |-> 0]

\* the timeupdate message of the embedded player at position p of d seconds
VimeoProgress(p, d) ==
    [event |-> "timeupdate", hasData |-> TRUE, seconds |-> p, duration |-> d]

\* setupHTML5VideoTracking on the one page, setupVimeoTracking on the other
BothSetup ==
    /\ Alive /\ vpc = "init" /\ media.kind = "html5" /\ GALite.phase # "absent"
    /\ vpc' = IF media.readyState >= 1 THEN "html5" ELSE "html5meta"
    /\ videoState' = [videoState EXCEPT
                        !.videoType = "html5",
                        !.duration = IF media.readyState >= 1
                                     THEN media.duration ELSE @]
    /\ twin' = [twin EXCEPT !.st.videoType = "vimeo"]
    /\ UNCHANGED <<now, lifecycle, log, thrown, media, posted>>
    /\ UNCHANGED sinkVars /\ UNCHANGED carouselVars

\* the media's metadata loads: the native element fires 'loadedmetadata',
\* the embedded player posts 'ready'
BothMetadata ==
    /\ Alive /\ vpc # "init" /\ media.readyState = 0
    /\ media' = [media EXCEPT !.readyState = 1]
    /\ IF vpc = "html5meta"
       THEN videoState' = [videoState EXCEPT !.duration = media.duration]
       ELSE UNCHANGED videoState
    /\ twin' = handleVimeoEvent(twin, GALite, VimeoEvent("ready"), now)
    /\ UNCHANGED <<now, lifecycle, log, thrown, vpc, posted>>
    /\ UNCHANGED sinkVars /\ UNCHANGED carouselVars

\* start or resume: 'play' on the element, {event: 'play'} from the player
BothPlay ==
    /\ Alive /\ Html5Listening
    /\ VCommit(html5Play(VRun(videoState), GALite, now))
    /\ twin' = handleVimeoEvent(twin, GALite, VimeoEvent("play"), now)
    /\ UNCHANGED <<now, lifecycle, media, vpc, posted>>
    /\ UNCHANGED sinkVars /\ UNCHANGED carouselVars

\* pause on both
BothPause ==
    /\ Alive /\ Html5Listening
    /\ VCommit(pause(VRun(videoState), now))
    /\ twin' = handleVimeoEvent(twin, GALite, VimeoEvent("pause"), now)
    /\ UNCHANGED <<now, lifecycle, media, vpc, posted>>
    /\ UNCHANGED sinkVars /\ UNCHANGED carouselVars

\* progress(p, duration) on both
BothProgress(p) ==
    /\ Alive /\ Html5Listening /\ media.readyState >= 1 /\ p <= media.duration
    /\ media' = [media EXCEPT !.currentTime = p]
    /\ VCommit(progress(VRun(videoState), GALite, p))
    /\ twin' = handleVimeoEvent(twin, GALite, VimeoProgress(p, media.duration), now)
    /\ UNCHANGED <<now, lifecycle, vpc, posted>>
    /\ UNCHANGED sinkVars /\ UNCHANGED carouselVars

\* natural end on both
BothEnded ==
    /\ Alive /\ Html5Listening /\ media.readyState >= 1
    /\ VCommit(trackVideoComplete(VRun(videoState), GALite, now))
    /\ twin' = handleVimeoEvent(twin, GALite, VimeoEvent("ended"), now)
    /\ UNCHANGED <<now, lifecycle, media, vpc, posted>>
    /\ UNCHANGED sinkVars /\ UNCHANGED carouselVars

\* beforeunload on both pages
BothBeforeUnload ==
    /\ lifecycle = "active"
    /\ lifecycle' = "beforeunload"
    /\ VCommit(videoHandlePageUnload(VRun(videoState), GALite, now))
    /\ twin' = videoHandlePageUnload(twin, GALite, now)
    /\ UNCHANGED <<now, media, vpc, posted>>
    /\ UNCHANGED sinkVars /\ UNCHANGED carouselVars

\* pagehide on both pages
BothPageHide ==
    /\ Alive
    /\ lifecycle' = "hidden"
    /\ VCommit(videoHandlePageUnload(VRun(videoState), GALite, now))
    /\ twin' = videoHandlePageUnload(twin, GALite, now)
    /\ UNCHANGED <<now, media, vpc, posted>>
    /\ UNCHANGED sinkVars /\ UNCHANGED carouselVars

InitTransports ==
    /\ now = T0 /\ storage = "P42" /\ prompted = FALSE /\ loads = 1
    /\ urlId = "P42" /\ GALite = LoadedGALite("P42")
    /\ log = <<>> /\ thrown = FALSE /\ lifecycle = "active"
    /\ carouselState = InitCarouselState /\ lastSlideIndex = 0
    /\ trackStyle = NoStyle /\ timers = <<>> /\ cpc = "init" /\ indexChanges = 0
    /\ startedAt = null
    /\ dom = [slides |-> 0, overlay |-> "none", hasTrack |-> FALSE,
              hasCarousel |-> FALSE, dots |-> 0]
    /\ videoState = InitVideoState /\ vpc = "init" /\ twin = NoTwin /\ posted = <<>>
    /\ media \in {[kind |-> "html5", readyState |-> 0, duration |-> d,
                   currentTime |-> 0] : d \in Durations}

NextTransports ==
    \/ Tick(VideoGaps)
    \/ BothSetup
    \/ BothMetadata
    \/ LogRoom(MaxVideoLog, 1) /\ BothPlay
    \/ BothPause
    \/ LogRoom(MaxVideoLog, 2) /\ \E p \in PlaybackPositions : BothProgress(p)
    \/ LogRoom(MaxVideoLog, 1) /\ BothEnded
    \/ LogRoom(MaxVideoLog, 1) /\ BothBeforeUnload
    \/ LogRoom(MaxVideoLog, 1) /\ BothPageHide

SpecTransports == InitTransports /\ [][NextTransports]_vars

(***************************************************************************)
(* C17: for the same sequence of signals with the same timestamps the      *)
(* native-element observer and the embedded-player observer emit the same  *)
(* sequence of event names with the same payloads apart from video_type.   *)
(***************************************************************************)
\* a payload without its video_type
SansType(p) == [k \in DOMAIN p \ {"video_type"} |-> p[k]]

C17_TransportsAgree ==
    /\ Len(twin.out) = Len(log)
    /\ \A i \in 1..Len(log) :
          /\ i <= Len(twin.out)
          /\ twin.out[i].event = log[i].event
          /\ SansType(twin.out[i].params) = SansType(log[i].params)

(***************************************************************************)
(* C18: after every progress signal has been handled, every configured     *)
(* milestone m with m <= maxWatched has had its video_progress emitted,    *)
(* also when the duration is still 0 or unknown when m is crossed.         *)
(***************************************************************************)
C18_NoMilestoneLeftUnreported ==
    \A m \in Milestones : m <= videoState.maxWatched => ProgressAt(m) # {}

(***************************************************************************)
(* C19: on every detected slide-index change after tracking start, in this *)
(* order: dwell_end is emitted for the slide being left with dwell_ms =    *)
(* now - slideStartTime whatever its value, its viewed flag is set only if *)
(* dwell_ms >= the minimum, one record is appended to the history and      *)
(* dwell_ms is added to the total, then slide_view is emitted for the new  *)
(* slide, currentSlide becomes the new index and slideStartTime is now.    *)
(***************************************************************************)
\* the step reports a slide change: it appends a slide_view other than the
\* initial one
ChangeReported ==
    \E k \in AppendedNamed("slide_view") : log'[k].params.direction # "start"

C19_SlideChangeSequence ==
    [][(carouselState.isStarted /\ ChangeReported) =>
          LET left == carouselState.currentSlide
              dwellMs == now - carouselState.slideStartTime
              view == log'[Len(log')]
          IN  /\ Len(log') = Len(log) + 2
              /\ log'[Len(log) + 1].event = "dwell_end"
              /\ log'[Len(log) + 1].params =
                   [slide_index |-> left, dwell_ms |-> dwellMs]
              /\ \A i \in DOMAIN carouselState'.slideViewedFlags :
                    carouselState'.slideViewedFlags[i] =
                       IF i = left /\ dwellMs >= MIN_DWELL_MS THEN TRUE
                       ELSE carouselState.slideViewedFlags[i]
              /\ carouselState'.slideHistory =
                   Append(carouselState.slideHistory,
                          [slideIndex |-> left, dwellMs |-> dwellMs,
                           timestamp |-> now])
              /\ carouselState'.totalDwellTime
                   = carouselState.totalDwellTime + dwellMs
              /\ view.event = "slide_view"
              /\ carouselState'.currentSlide = view.params.slide_index
              /\ carouselState'.slideStartTime = now]_vars

(***************************************************************************)
(* C20: every slide_view after the initial one carries a direction in      *)
(* {next, prev, jump} that agrees with the transition it reports: next     *)
(* only when the new index is greater than the previously occupied index,  *)
(* prev only when it is smaller, jump only when a dot triggered it.        *)
(***************************************************************************)
C20_DirectionAgrees ==
    [][carouselState.isStarted =>
          \A k \in AppendedNamed("slide_view") :
              LET e == log'[k].params IN
                /\ e.direction \in {"next", "prev", "jump"}
                /\ e.direction = "next" => e.slide_index > carouselState.currentSlide
                /\ e.direction = "prev" => e.slide_index < carouselState.currentSlide
                /\ e.direction = "jump" =>
                      timers # <<>> /\ Head(timers).kind = "dot"]_vars

(***************************************************************************)
(* C21: on a pause signal the time elapsed since the last resume is added  *)
(* to totalWatchedMs and startTime is cleared; totalWatchedMs changes only *)
(* in a handler that closes an open playing interval (pause, natural end,  *)
(* unload) and is left unchanged by every signal received while no         *)
(* interval is open.                                                       *)
(***************************************************************************)
C21_WatchedTimeFrame ==
    [][/\ videoState.startTime = null =>
            videoState'.totalWatchedMs = videoState.totalWatchedMs
       /\ videoState'.totalWatchedMs # videoState.totalWatchedMs =>
            /\ videoState.startTime # null
            /\ videoState'.totalWatchedMs
                 = videoState.totalWatchedMs + (now - videoState.startTime)
            /\ videoState'.startTime = null]_vars

(***************************************************************************)
(* C27: over any sequence of play, pause, resume, ended, replay,           *)
(* beforeunload and pagehide signals in one page load at most one          *)
(* video_complete event is emitted.                                        *)
(***************************************************************************)
C27_AtMostOneComplete ==
    Cardinality(Positions("video_complete")) <= 1

(***************************************************************************)
(* C22: resume is idempotent: a play signal received while startTime is    *)
(* set leaves startTime and all other playback state unchanged and emits   *)
(* nothing, so two consecutive play signals have the effect of one, on the *)
(* native transport (two play listeners per event) and on the embedded.    *)
(***************************************************************************)
\* the run r followed by a play signal at time t on the transport in use
AfterPlay(r, t) ==
    IF vpc = "vimeo" THEN handleVimeoEvent(r, GALite, VimeoEvent("play"), t)
    ELSE html5Play(r, GALite, t)

C22_ResumeIdempotent ==
    vpc \in {"html5", "html5meta", "vimeo"} =>
        \A t \in Instants(VideoGaps), u \in Instants(VideoGaps) :
            (now <= t /\ t <= u) =>
               /\ TruthyNum(videoState.startTime) =>
                     AfterPlay(VRun(videoState), t) = VRun(videoState)
               /\ AfterPlay(AfterPlay(VRun(videoState), t), u)
                     = AfterPlay(VRun(videoState), t)

\* the video plays, after a pause and a resume, later than it was resumed
C22_Witness ==
    /\ vpc \in {"html5", "html5meta", "vimeo"}
    /\ videoState.isStarted
    /\ videoState.totalWatchedMs > 0
    /\ videoState.startTime # null
    /\ videoState.startTime < now

(***************************************************************************)
(* C24: a cross-frame message that is malformed (not JSON, JSON without an *)
(* event member, a timeupdate without data) or that comes from an origin   *)
(* other than the player's is ignored: no exception escapes the handler,   *)
(* no event is emitted and the playback state is unchanged.                *)
(***************************************************************************)
\* a parsed message the observer has no use for
Malformed(m) == m.event = NoId \/ (m.event = "timeupdate" /\ ~m.hasData)

C24_BadMessagesIgnored ==
    vpc = "vimeo" =>
        \A fromPlayer \in BOOLEAN, isJson \in BOOLEAN,
           m \in VimeoMessages(PlaybackPositions) :
            (~fromPlayer \/ ~isJson \/ Malformed(m)) =>
                messageListener(VRun(videoState), GALite, fromPlayer, isJson,
                                m, now) = VRun(videoState)

\* the embedded video plays at position 4: a pause, an end or a position
\* accepted from a bad message would change the state or emit
C24_Witness ==
    /\ vpc = "vimeo" /\ videoState.isStarted
    /\ videoState.startTime # null /\ videoState.startTime < now
    /\ videoState.maxWatched = 4 /\ videoState.duration = 16

(***************************************************************************)
(* C23: on load of the embedded player frame the observer performs an      *)
(* explicit subscribe handshake for the callbacks it consumes: an          *)
(* addEventListener message is posted to the player for timeupdate and for *)
(* each of play, pause and ended.                                          *)
(***************************************************************************)
\* an addEventListener message for event e was posted to the player
Subscribed(e) ==
    \E i \in 1..Len(posted) :
        posted[i] = [method |-> "addEventListener", value |-> e]

C23_SubscribeHandshake ==
    (vpc = "vimeo" /\ posted # <<>>) =>
        \A e \in {"timeupdate", "play", "pause", "ended"} : Subscribed(e)

(***************************************************************************)
(* C28: totalDwellTime always equals the sum of the dwellMs of the history *)
(* records, and it never exceeds the wall-clock time elapsed since         *)
(* tracking start: no interval of time is counted in more than one         *)
(* dwell_end, the final flush on unload included.                          *)
(***************************************************************************)
\* sum of the dwellMs of the first n history records
RECURSIVE HistoryDwell(_, _)
HistoryDwell(h, n) == IF n = 0 THEN 0 ELSE HistoryDwell(h, n - 1) + h[n].dwellMs

C28_TotalDwellWithinElapsed ==
    /\ carouselState.totalDwellTime
         = HistoryDwell(carouselState.slideHistory, Len(carouselState.slideHistory))
    /\ startedAt # null => carouselState.totalDwellTime <= now - startedAt

(***************************************************************************)
(* The whole page: ga-lite.js loading while both observers initialise and  *)
(* run (a pointer-driven page: slide changes reach the observer through    *)
(* the track's style)                                                      *)
(***************************************************************************)
MaxPageLog == 4     \* longest log the page's signals are explored up to

\* initVideoTracking() while window.GALite is missing: retry in 100 ms
initVideoTrackingPoll ==
    /\ Alive /\ vpc = "init" /\ GALite.phase = "absent"
    /\ UNCHANGED vars

\* one lifecycle signal reaches the handlePageUnload of both scripts;
\* carouselFirst: the listener of ga-carousel.js was registered first
PageUnload(next, carouselFirst) ==
    /\ lifecycle' = next
    /\ LET c == carouselHandlePageUnload(Run(carouselState), GALite, now)
           v == videoHandlePageUnload(VRun(videoState), GALite, now)
       IN  /\ carouselState' = c.st
           /\ videoState' = v.st
           /\ Emit(IF carouselFirst THEN c.out \o v.out ELSE v.out \o c.out)
    /\ UNCHANGED <<now, lastSlideIndex, dom, trackStyle, timers, cpc,
                   indexChanges, startedAt, media, vpc, twin, posted>>
    /\ UNCHANGED sinkVars

\* beforeunload
PageBeforeUnload ==
    /\ lifecycle = "active"
    /\ \E carouselFirst \in BOOLEAN : PageUnload("beforeunload", carouselFirst)

\* pagehide
PageHide ==
    /\ Alive
    /\ \E carouselFirst \in BOOLEAN : PageUnload("hidden", carouselFirst)

\* Pages explored: a carousel page (no playback surface), a video page (no
\* slide elements), a page with neither
Pages ==
    {[dom |-> d, media |-> NoMedia] : d \in Doms}
    \cup {[dom |-> d, media |-> m] : d \in {e \in Doms : e.slides = 0}, m \in Medias}

\* the page opens with ?PROLIFIC_ID=P42; no script has run yet
InitPage ==
    /\ now = T0 /\ storage = NoId /\ prompted = FALSE /\ loads = 1
    /\ urlId = "P42" /\ GALite = NoGALite
    /\ log = <<>> /\ thrown = FALSE /\ lifecycle = "active"
    /\ carouselState = InitCarouselState /\ lastSlideIndex = 0
    /\ trackStyle = NoStyle /\ timers = <<>> /\ cpc = "init" /\ indexChanges = 0
    /\ startedAt = null
    /\ videoState = InitVideoState /\ vpc = "init"
    /\ twin = NoTwin /\ posted = <<>>
    /\ \E pg \in Pages : dom = pg.dom /\ media = pg.media

NextPage ==
    \/ Tick(Gaps)
    \/ SinkLoads
    \/ initCarouselTrackingPoll
    \/ initVideoTrackingPoll
    \/ initCarouselTracking
    \/ TapToStart
    \/ LogRoom(MaxPageLog, 2) /\ \E p \in Transforms(dom.slides) : StyleMutation(p)
    \/ initVideoTracking
    \/ LoadedMetadata
    \/ LogRoom(MaxPageLog, 1) /\ Html5Play
    \/ LogRoom(MaxPageLog, 2) /\ \E p \in PlaybackPositions : Html5TimeUpdate(p)
    \/ LogRoom(MaxPageLog, 2) /\ \E m \in VimeoMessages(PlaybackPositions) :
          /\ m.event \in {"play", "timeupdate"} /\ m.duration = media.duration
          /\ VimeoMessage(TRUE, TRUE, m)
    \/ PageBeforeUnload
    \/ PageHide

SpecPage == InitPage /\ [][NextPage]_vars

\* the retry timers of both observers are scheduled fairly
SpecPageFair ==
    /\ SpecPage
    /\ WF_vars(initCarouselTracking)
    /\ WF_vars(initVideoTracking)

(***************************************************************************)
(* C26: each observer polls until window.GALite is available and then      *)
(* performs its element lookup exactly once: it never looks up elements or *)
(* attaches listeners before the sink is available, and if the sink        *)
(* becomes available the lookup eventually happens (the retry timer being  *)
(* scheduled fairly) unless the page is hidden first.                      *)
(***************************************************************************)
C26_PollThenLookupOnce ==
    /\ []((cpc # "init" \/ vpc # "init") => GALite.phase # "absent")
    /\ [][/\ cpc # "init" =>
               /\ cpc' # "init"
               /\ carouselState'.totalSlides = carouselState.totalSlides
          /\ vpc # "init" =>
               /\ vpc' # "init"
               /\ videoState'.videoType = videoState.videoType
          /\ GALite.phase = "absent" =>
               /\ cpc' = "init" /\ vpc' = "init"
               /\ carouselState' = InitCarouselState
               /\ videoState' = InitVideoState]_vars
    /\ (GALite.phase # "absent") ~> (cpc # "init" \/ lifecycle = "hidden")
    /\ (GALite.phase # "absent") ~> (vpc # "init" \/ lifecycle = "hidden")

\* both observers have done their lookup, the sink still initialising
C26_Witness ==
    /\ GALite.phase \in {"defined", "loading"}
    /\ cpc \in {"waiting", "tracking", "idle"}
    /\ vpc \in {"html5", "html5meta", "vimeo", "idle"}

CarouselEvents == {"carousel_start", "slide_view", "dwell_end",
                   "carousel_complete"}

VideoEvents == {"video_start", "video_progress", "video_complete"}

(***************************************************************************)
(* C25: an observer whose target element is absent (no slides; neither a   *)
(* video nor a frame) stays idle for the whole page load: no track call of *)
(* that observer is ever made, the unload signals included, and its state  *)
(* keeps its initial value.                                                *)
(***************************************************************************)
C25_AbsentTargetStaysIdle ==
    /\ dom.slides = 0 =>
         /\ carouselState = InitCarouselState
         /\ cpc \in {"init", "idle"}
         /\ \A i \in 1..Len(log) : log[i].event \notin CarouselEvents
    /\ media = NoMedia =>
         /\ videoState = InitVideoState
         /\ vpc \in {"init", "idle"}
         /\ posted = <<>>
         /\ \A i \in 1..Len(log) : log[i].event \notin VideoEvents

\* a page with neither slides nor video, hidden after both lookups found
\* nothing and the sink had loaded
C25_Witness ==
    /\ dom.slides = 0 /\ media = NoMedia
    /\ cpc = "idle" /\ vpc = "idle"
    /\ GALite.isLoaded
    /\ lifecycle = "hidden"

(***************************************************************************)
(* C29: what an observer records as sent was forwarded: once the sink has  *)
(* finished initialising, isStarted implies a forwarded start event        *)
(* (carousel_start, video_start) and every milestone of progressTracked    *)
(* has a forwarded video_progress.                                         *)
(***************************************************************************)
C29_MarkedSentWasForwarded ==
    GALite.isLoaded =>
      /\ carouselState.isStarted =>
           \E i \in 1..Len(log) :
               log[i].event = "carousel_start" /\ log[i].forwarded
      /\ videoState.isStarted =>
           \E i \in 1..Len(log) :
               log[i].event = "video_start" /\ log[i].forwarded
      /\ \A m \in videoState.progressTracked :
           \E i \in 1..Len(log) :
               /\ log[i].event = "video_progress" /\ log[i].forwarded
               /\ log[i].params.second = m

====
